---- MODULE Spec2Model ----
(***************************************************************************)
(* Notification deduplication and delivery engine of chslakernation:      *)
(* the sent_notifications ledger (server/storage.ts) and the pass that    *)
(* claims, sends and reconciles reminders (checkAndSendNotifications).    *)
(* Time is counted in minutes of local wall-clock time since day 0 00:00. *)
(***************************************************************************)
EXTENDS Integers, Sequences, FiniteSets, TLC

VARIABLES
  ledger,             \* rows of table sent_notifications
  nextId,             \* source of fresh row ids (gen_random_uuid)
  now,                \* the wall clock
  games,              \* rows of table games (never written by the engine)
  subscriptions,      \* rows of table subscriptions (never written by the engine)
  pushSubscriptions,  \* rows of table push_subscriptions
  pc,                 \* per pass: the await the pass is suspended at
  tasks,              \* per pass: the (game, subscriber, kind) pairs still to process
  result,             \* per pass: the NotificationCheck being accumulated
  record,             \* per pass: existing[0] read inside tryRecordNotificationAtomically
  fiveMinutesAgo,     \* per pass: the threshold computed inside tryRecordNotificationAtomically
  passNow,            \* per pass: `now`, taken once when the pass starts
  delivered,          \* per key: how often the delivery capability succeeded
  crashes             \* how many times a server process died mid-pass

vars == <<ledger, nextId, now, games, subscriptions, pushSubscriptions, pc, tasks, result,
          record, fiveMinutesAgo, passNow, delivered, crashes>>

(***************************************************************************)
(* Bounds of the model.                                                    *)
(***************************************************************************)
MaxNow == 540        \* the clock stops here
MaxInserts == 2      \* rows ever inserted into the ledger
MaxCrashes == 1      \* process deaths
MaxDelivered == 2    \* deliveries counted per key

StartNow == 8 * 60 + 54   \* 08:54 on day 0
TickSteps == {5, 6}  \* minutes the clock may jump in one step

Workers == {"w1", "w2"}

(***************************************************************************)
(* Program constants.                                                      *)
(***************************************************************************)
StaleMinutes == 5
WindowLowHours == 21
WindowHighHours == 27
MorningStartHour == 8
MorningEndHour == 9
MinutesPerHour == 60
MinutesPerDay == 1440
NULL == -1

(***************************************************************************)
(* The games, subscriptions and push_subscriptions tables.  A time string  *)
(* is a sequence of characters.                                            *)
(***************************************************************************)
\* getAllGames returns the games ordered by date
Games ==
  << [id |-> "g2", sport |-> "Soccer", date |-> 0,
      time |-> <<"3", ":", "0", "0", " ", "p", "m">>],
     [id |-> "g1", sport |-> "Hockey", date |-> 1440,
      time |-> <<"1", "0", ":", "0", "0", " ", "A", "M">>] >>

PushSubscriptionRows ==
  << [id |-> "p1", fcmToken |-> "t1", sports |-> {"Hockey"}],
     [id |-> "p1", fcmToken |-> "t1", sports |-> {"Soccer"}],
     [id |-> "p2", fcmToken |-> "t2", sports |-> {"Hockey"}] >>

\* the contents of the subscriptions and push_subscriptions tables a run starts with
Worlds ==
  { [subscriptions |-> << [id |-> "s1", sports |-> {"Hockey"}] >>, push |-> {}],
    [subscriptions |-> << [id |-> "s1", sports |-> {"Golf"}] >>,
     push |-> {PushSubscriptionRows[1]}],
    [subscriptions |-> << [id |-> "s1", sports |-> {"Golf"}] >>,
     push |-> {PushSubscriptionRows[2]}],
    [subscriptions |-> <<>>, push |-> {PushSubscriptionRows[1]}] }

NotificationTypes == {"24hour", "gameday", "24hour-push", "gameday-push"}

Keys ==
  { <<g, s, k>> : g \in {"g1", "g2"}, s \in {"s1", "p1"}, k \in NotificationTypes }

(***************************************************************************)
(* Parsing of game.time with /(\d+):(\d+)\s*(AM|PM)/i.                     *)
(***************************************************************************)
Digits == <<"0", "1", "2", "3", "4", "5", "6", "7", "8", "9">>

IsDigit(c) == \E i \in 1..10 : Digits[i] = c

DigitValue(c) == (CHOOSE i \in 1..10 : Digits[i] = c) - 1

IsSpace(c) == c \in {" ", "\t"}

RECURSIVE DigitRunEnd(_, _)
\* first index >= i of s that does not hold a digit (Len(s)+1 if none)
DigitRunEnd(s, i) ==
  IF i > Len(s) THEN Len(s) + 1
  ELSE IF IsDigit(s[i]) THEN DigitRunEnd(s, i + 1) ELSE i

RECURSIVE SpaceRunEnd(_, _)
\* first index >= i of s that does not hold white space (Len(s)+1 if none)
SpaceRunEnd(s, i) ==
  IF i > Len(s) THEN Len(s) + 1
  ELSE IF IsSpace(s[i]) THEN SpaceRunEnd(s, i + 1) ELSE i

RECURSIVE parseInt(_, _, _)
\* value of the decimal digits s[i..j-1]
parseInt(s, i, j) ==
  IF j <= i THEN 0 ELSE parseInt(s, i, j - 1) * 10 + DigitValue(s[j - 1])

NoMatch == [matched |-> FALSE, hours |-> 0, minutes |-> 0, isPM |-> FALSE]

\* (AM|PM) at index m, case-insensitive
MatchMeridiem(s, i, j, k, m) ==
  IF m + 1 <= Len(s) /\ s[m] \in {"A", "a", "P", "p"} /\ s[m + 1] \in {"M", "m"}
    THEN [matched |-> TRUE,
          hours   |-> parseInt(s, i, j),
          minutes |-> parseInt(s, j + 1, k),
          isPM    |-> s[m] \in {"P", "p"}]
    ELSE NoMatch

\* (\d+) from j+1 to k-1, then \s*
MatchMinutes(s, i, j, k) ==
  IF k > j + 1 THEN MatchMeridiem(s, i, j, k, SpaceRunEnd(s, k)) ELSE NoMatch

\* (\d+) from i to j-1, then ":"
MatchHours(s, i, j) ==
  IF j > i /\ j <= Len(s) /\ s[j] = ":"
    THEN MatchMinutes(s, i, j, DigitRunEnd(s, j + 1))
    ELSE NoMatch

\* the match of the regular expression that starts at index i of s
MatchesAt(s, i) == MatchHours(s, i, DigitRunEnd(s, i))

RECURSIVE MatchFrom(_, _)
\* the leftmost match at or after index i
MatchFrom(s, i) ==
  IF i > Len(s) THEN NoMatch
  ELSE IF MatchesAt(s, i).matched THEN MatchesAt(s, i)
  ELSE MatchFrom(s, i + 1)

\* game.time.match(/(\d+):(\d+)\s*(AM|PM)/i)
timeMatch(s) == MatchFrom(s, 1)

(***************************************************************************)
(* Eligibility of a game at the pass's `now`.                              *)
(***************************************************************************)
StartOfDay(t) == (t \div MinutesPerDay) * MinutesPerDay

\* Date.setHours(hours, minutes, 0, 0)
setHours(t, hours, minutes) == StartOfDay(t) + hours * MinutesPerHour + minutes

\* the conversion without `hours !== 12`: 12 is added to every PM hour
Hours24_NoonAdds12(hours, isPM) ==
  IF isPM THEN hours + 12
  ELSE IF hours = 12 THEN 0
  ELSE hours

\* if (isPM && hours !== 12) hours += 12; if (!isPM && hours === 12) hours = 0
Hours24(hours, isPM) ==
  IF isPM /\ hours # 12 THEN hours + 12
  ELSE IF ~isPM /\ hours = 12 THEN 0
  ELSE hours

\* gameDateTime after the optional setHours
WithTime(date, tm) ==
  IF tm.matched THEN setHours(date, Hours24(tm.hours, tm.isPM), tm.minutes) ELSE date

gameDateTime(game) == WithTime(game.date, timeMatch(game.time))

\* the window closed at 21 hours and open at 27 hours
InWindow_Shifted(diff) ==
  diff >= WindowLowHours * MinutesPerHour /\ diff < WindowHighHours * MinutesPerHour

\* timeDiffHours > 21 && timeDiffHours <= 27, in minutes
InWindow(diff) ==
  diff > WindowLowHours * MinutesPerHour /\ diff <= WindowHighHours * MinutesPerHour

needs24HourNotification(game, t) == InWindow(gameDateTime(game) - t)

\* the comparison of the calendar dates left out
isSameDay_Always(a, b) == TRUE

isSameDay(a, b) == StartOfDay(a) = StartOfDay(b)

\* the morning window with 08:00 sharp inside
needsMorningNotification_From8(game, t) ==
  /\ isSameDay(gameDateTime(game), t)
  /\ t >= setHours(t, MorningStartHour, 0)
  /\ t < setHours(t, MorningEndHour, 0)

needsMorningNotification(game, t) ==
  /\ isSameDay(gameDateTime(game), t)
  /\ t > setHours(t, MorningStartHour, 0)
  /\ t < setHours(t, MorningEndHour, 0)

(***************************************************************************)
(* The ledger: table sent_notifications and its statements.                *)
(***************************************************************************)
KeyOf(r) == <<r.gameId, r.subscriptionId, r.notificationType>>

Matching(l, k) == { r \in l : KeyOf(r) = k }

\* the table without the unique constraint
UniqueViolation_Missing(l, k) == FALSE

\* constraint unique_notification on (game_id, subscription_id, notification_type)
UniqueViolation(l, k) == Matching(l, k) # {}

\* INSERT ... VALUES (gameId, subscriptionId, notificationType, 'pending')
InsertPending(l, k, id, t) ==
  l \cup { [id |-> id, gameId |-> k[1], subscriptionId |-> k[2],
            notificationType |-> k[3], status |-> "pending",
            createdAt |-> t, sentAt |-> NULL] }

\* the staleness test without the look at the status
IsStale_AnyStatus(rec, t) == rec.createdAt < t - StaleMinutes

\* the staleness test leaving out the records in sending
IsStale_PendingOnly(rec, t) ==
  rec.status = "pending" /\ rec.createdAt < t - StaleMinutes

\* the staleness test with <= in place of <
IsStale_NonStrict(rec, t) ==
  rec.status \in {"sending", "pending"} /\ rec.createdAt <= t - StaleMinutes

\* record.status is 'sending' or 'pending' and record.createdAt < fiveMinutesAgo
IsStale(rec, t) ==
  rec.status \in {"sending", "pending"} /\ rec.createdAt < t - StaleMinutes

\* the WHERE clause without created_at < threshold
ReclaimMatches_NoAge(l, rec, threshold) ==
  { r \in l : r.id = rec.id /\ r.status = rec.status }

\* the rows the stale-reclaim UPDATE ... WHERE id AND status AND created_at < threshold hits
ReclaimMatches(l, rec, threshold) ==
  { r \in l : r.id = rec.id /\ r.status = rec.status /\ r.createdAt < threshold }

\* the UPDATE refreshing created_at only
ReclaimUpdate_KeepStatus(l, rec, threshold, t) ==
  { IF r \in ReclaimMatches(l, rec, threshold)
      THEN [r EXCEPT !.createdAt = t]
      ELSE r : r \in l }

\* the UPDATE of the stale branch with WHERE id = record.id alone
ReclaimUpdate_ByIdOnly(l, rec, threshold, t) ==
  { IF r.id = rec.id
      THEN [r EXCEPT !.status = "pending", !.createdAt = t]
      ELSE r : r \in l }

\* UPDATE ... SET status = 'pending', created_at = now WHERE ...
ReclaimUpdate(l, rec, threshold, t) ==
  { IF r \in ReclaimMatches(l, rec, threshold)
      THEN [r EXCEPT !.status = "pending", !.createdAt = t]
      ELSE r : r \in l }

\* the rows markNotificationSending's UPDATE hits
SendingMatches(l, k) == { r \in Matching(l, k) : r.status = "pending" }

\* the UPDATE of markNotificationSending without status = 'pending' in its WHERE
markNotificationSending_AnyStatus(l, k, t) ==
  { IF r \in Matching(l, k)
      THEN [r EXCEPT !.status = "sending", !.createdAt = t]
      ELSE r : r \in l }

markNotificationSending(l, k, t) ==
  { IF r \in SendingMatches(l, k)
      THEN [r EXCEPT !.status = "sending", !.createdAt = t]
      ELSE r : r \in l }

\* the UPDATE of markNotificationSent turned into an upsert
markNotificationSent_Upsert(l, k, t) ==
  IF Matching(l, k) = {}
    THEN l \cup { [id |-> 0, gameId |-> k[1], subscriptionId |-> k[2],
                   notificationType |-> k[3], status |-> "sent",
                   createdAt |-> t, sentAt |-> t] }
    ELSE { IF r \in Matching(l, k)
             THEN [r EXCEPT !.status = "sent", !.sentAt = t]
             ELSE r : r \in l }

\* the UPDATE of markNotificationSent without sentAt in its SET
markNotificationSent_NoSentAt(l, k, t) ==
  { IF r \in Matching(l, k)
      THEN [r EXCEPT !.status = "sent"]
      ELSE r : r \in l }

markNotificationSent(l, k, t) ==
  { IF r \in Matching(l, k)
      THEN [r EXCEPT !.status = "sent", !.sentAt = t]
      ELSE r : r \in l }

\* the DELETE restricted to rows still pending
deleteNotificationRecord_OnlyPending(l, k) ==
  l \ { r \in Matching(l, k) : r.status = "pending" }

\* the DELETE hitting no row
deleteNotificationRecord_NoRow(l, k) == l

deleteNotificationRecord(l, k) == l \ Matching(l, k)

\* `return result.length > 0` of markNotificationSending, markNotificationSent
\* and deleteNotificationRecord: the statement hit a row
markSendingReturns(l, k) == SendingMatches(l, k) # {}

markSentReturns(l, k) == Matching(l, k) # {}

deleteRecordReturns(l, k) == Matching(l, k) # {}

deletePushSubscriptionByToken(subs, token) ==
  { p \in subs : p.fcmToken # token }

(***************************************************************************)
(* The work list of a pass: the loops of checkAndSendNotifications laid    *)
(* out in the order the code runs them.  "count24" and "countMorning" are  *)
(* the counter increments at the head of a game's loop, "loadPush" is the  *)
(* start of the push section.                                              *)
(***************************************************************************)
Marker(op) ==
  [op |-> op, gameId |-> "", subscriptionId |-> "", notificationType |-> "",
   channel |-> "", fcmToken |-> ""]

Task(game, sub, kind, channel, token) ==
  [op |-> "notify", gameId |-> game.id, subscriptionId |-> sub.id,
   notificationType |-> kind, channel |-> channel, fcmToken |-> token]

RECURSIVE SubscriberTasks(_, _, _)
SubscriberTasks(game, subs, kind) ==
  IF subs = <<>> THEN <<>>
  ELSE (IF game.sport \in Head(subs).sports
          THEN << Task(game, Head(subs), kind, "email", "") >>
          ELSE <<>>)
       \o SubscriberTasks(game, Tail(subs), kind)

\* the two loops over interestedSubscribers of one game
GameTasks(game, subs, needs24Hour, needsMorning) ==
  (IF needs24Hour
     THEN << Marker("count24") >> \o SubscriberTasks(game, subs, "24hour")
     ELSE <<>>)
  \o (IF needsMorning
        THEN << Marker("countMorning") >> \o SubscriberTasks(game, subs, "gameday")
        ELSE <<>>)

RECURSIVE EmailTasks(_, _, _)
EmailTasks(gs, subs, t) ==
  IF gs = <<>> THEN <<>>
  ELSE GameTasks(Head(gs), subs, needs24HourNotification(Head(gs), t),
                 needsMorningNotification(Head(gs), t))
       \o EmailTasks(Tail(gs), subs, t)

\* SELECT * FROM push_subscriptions
getAllPushSubscriptions(subs) == SelectSeq(PushSubscriptionRows, LAMBDA p : p \in subs)

RECURSIVE PushSubscriberTasks(_, _, _)
PushSubscriberTasks(game, subs, kind) ==
  IF subs = <<>> THEN <<>>
  ELSE (IF game.sport \in Head(subs).sports
          THEN << Task(game, Head(subs), kind, "push", Head(subs).fcmToken) >>
          ELSE <<>>)
       \o PushSubscriberTasks(game, Tail(subs), kind)

\* the loop over matchingPushSubs of one game
PushGameTasks(game, subs, needs24Hour, needsMorning) ==
  IF needs24Hour \/ needsMorning
    THEN PushSubscriberTasks(game, subs, IF needs24Hour THEN "24hour-push" ELSE "gameday-push")
    ELSE <<>>

RECURSIVE PushTasks(_, _, _)
PushTasks(gs, subs, t) ==
  IF gs = <<>> THEN <<>>
  ELSE PushGameTasks(Head(gs), subs, needs24HourNotification(Head(gs), t),
                     needsMorningNotification(Head(gs), t))
       \o PushTasks(Tail(gs), subs, t)

EmptyResult ==
  [gamesIn24Hours |-> 0, gamesMorningOf |-> 0, emailsSent |-> 0,
   skippedDuplicates |-> 0, errors |-> <<>>]

RECURSIVE Advance(_, _)
\* run the synchronous code up to the next await: consume the counter markers
Advance(res, ts) ==
  IF ts = <<>> THEN [result |-> res, tasks |-> ts]
  ELSE IF Head(ts).op = "count24"
    THEN Advance([res EXCEPT !.gamesIn24Hours = @ + 1], Tail(ts))
  ELSE IF Head(ts).op = "countMorning"
    THEN Advance([res EXCEPT !.gamesMorningOf = @ + 1], Tail(ts))
  ELSE [result |-> res, tasks |-> ts]

\* the await a pass with work list ts is suspended at
PcOf(ts) ==
  IF ts = <<>> THEN "done"
  ELSE IF Head(ts).op = "loadPush" THEN "loadPush"
  ELSE "claim"

CurTask(w) == Head(tasks[w])

CurKey(w) == <<CurTask(w).gameId, CurTask(w).subscriptionId, CurTask(w).notificationType>>

NoRecord == [id |-> NULL, status |-> "none", createdAt |-> NULL]

(***************************************************************************)
(* Initial state: empty ledger, no pass running.                           *)
(***************************************************************************)
Init ==
  /\ ledger = {}
  /\ nextId = 1
  /\ now = StartNow
  /\ games = Games
  /\ \E world \in Worlds :
       /\ subscriptions = world.subscriptions
       /\ pushSubscriptions = world.push
  /\ pc = [w \in Workers |-> "idle"]
  /\ tasks = [w \in Workers |-> <<>>]
  /\ result = [w \in Workers |-> EmptyResult]
  /\ record = [w \in Workers |-> NoRecord]
  /\ fiveMinutesAgo = [w \in Workers |-> NULL]
  /\ passNow = [w \in Workers |-> NULL]
  /\ delivered = [k \in Keys |-> 0]
  /\ crashes = 0

(***************************************************************************)
(* Control flow shared by the steps of a pass.                             *)
(***************************************************************************)
\* pass w goes on with the statistics and the work list of adv
Resume(w, adv, at) ==
  /\ result' = [result EXCEPT ![w] = adv.result]
  /\ tasks' = [tasks EXCEPT ![w] = adv.tasks]
  /\ pc' = [pc EXCEPT ![w] = at]
  /\ record' = [record EXCEPT ![w] = NoRecord]
  /\ fiveMinutesAgo' = [fiveMinutesAgo EXCEPT ![w] = NULL]
  /\ passNow' = [passNow EXCEPT ![w] =
                   IF at = "done" \/ pc[w] = "loadPush" THEN NULL
                   ELSE IF pc[w] = "idle" THEN now ELSE @]

\* `continue`: go on with the work list ts and the statistics res
Continue(w, res, ts) == Resume(w, Advance(res, ts), PcOf(Advance(res, ts).tasks))

\* the pass returns its result: `return result`
Return(w, res) == Resume(w, [result |-> res, tasks |-> <<>>], "done")

\* the error reported twice
AddError_Twice(res, e) == [res EXCEPT !.errors = Append(Append(@, e), e)]

AddError(res, e) == [res EXCEPT !.errors = Append(@, e)]

\* the email section is left by an exception: catch (error) at the end of the function
SystemError(w) == Return(w, AddError(result[w], "System error"))

\* the push section is left by an exception: catch (pushError)
PushError(w) == Return(w, AddError(result[w], "Push notification error"))

\* tryRecordNotificationAtomically threw
ClaimThrew(w) ==
  IF CurTask(w).channel = "email"
    THEN Continue(w, AddError(result[w], "Failed to record notification"), Tail(tasks[w]))
    ELSE Continue(w, result[w], Tail(tasks[w]))

\* the missing row treated as a claim: return true
ClaimFalse_ReturnsTrue(w) ==
  /\ pc' = [pc EXCEPT ![w] = IF CurTask(w).channel = "email" THEN "markSending" ELSE "send"]
  /\ record' = [record EXCEPT ![w] = NoRecord]
  /\ fiveMinutesAgo' = [fiveMinutesAgo EXCEPT ![w] = NULL]
  /\ UNCHANGED <<tasks, result, passNow>>

\* tryRecordNotificationAtomically returned false
ClaimFalse(w) ==
  IF CurTask(w).channel = "email"
    THEN Continue(w, [result[w] EXCEPT !.skippedDuplicates = @ + 1], Tail(tasks[w]))
    ELSE Continue(w, result[w], Tail(tasks[w]))

\* tryRecordNotificationAtomically returned true
ClaimTrue(w) ==
  /\ pc' = [pc EXCEPT ![w] = IF CurTask(w).channel = "email" THEN "markSending" ELSE "send"]
  /\ record' = [record EXCEPT ![w] = NoRecord]
  /\ fiveMinutesAgo' = [fiveMinutesAgo EXCEPT ![w] = NULL]
  /\ UNCHANGED <<tasks, result, passNow>>

(***************************************************************************)
(* checkAndSendNotifications, one action per await.                        *)
(***************************************************************************)
\* the pass starts: getAllGames, getAllSubscriptions, now = new Date()
StartPass(w) ==
  /\ pc[w] = "idle"
  /\ \/ Return(w, AddError(EmptyResult, "System error"))
     \/ IF Len(subscriptions) = 0
          THEN Return(w, EmptyResult)
          ELSE Continue(w, EmptyResult,
                        EmailTasks(games, subscriptions, now) \o << Marker("loadPush") >>)
  /\ UNCHANGED <<ledger, nextId, now, games, subscriptions, pushSubscriptions, delivered, crashes>>

\* tryRecordNotificationAtomically: the INSERT
TryInsert(w) ==
  /\ pc[w] = "claim"
  /\ \/ /\ ClaimThrew(w)
        /\ UNCHANGED <<ledger, nextId>>
     \/ /\ UniqueViolation(ledger, CurKey(w))
        /\ pc' = [pc EXCEPT ![w] = "claimSelect"]
        /\ UNCHANGED <<ledger, nextId, tasks, result, record, fiveMinutesAgo, passNow>>
     \/ /\ ~UniqueViolation(ledger, CurKey(w))
        /\ nextId <= MaxInserts
        /\ ledger' = InsertPending(ledger, CurKey(w), nextId, now)
        /\ nextId' = nextId + 1
        /\ ClaimTrue(w)
  /\ UNCHANGED <<now, games, subscriptions, pushSubscriptions, delivered, crashes>>

\* tryRecordNotificationAtomically: the SELECT after error 23505 and the
\* branches on existing[0]
ClaimSelect(w) ==
  /\ pc[w] = "claimSelect"
  /\ LET existing == Matching(ledger, CurKey(w))
     IN  \/ ClaimThrew(w)
         \/ /\ existing = {}
            /\ ClaimFalse(w)
         \/ \E rec \in existing :
              IF IsStale(rec, now)
                THEN /\ pc' = [pc EXCEPT ![w] = "claimUpdate"]
                     /\ record' = [record EXCEPT ![w] =
                                     [id |-> rec.id, status |-> rec.status,
                                      createdAt |-> rec.createdAt]]
                     /\ fiveMinutesAgo' = [fiveMinutesAgo EXCEPT ![w] = now - StaleMinutes]
                     /\ UNCHANGED <<tasks, result, passNow>>
                ELSE ClaimFalse(w)
  /\ UNCHANGED <<ledger, nextId, now, games, subscriptions, pushSubscriptions, delivered, crashes>>

\* tryRecordNotificationAtomically: the conditional UPDATE ... RETURNING of a
\* stale 'sending' or 'pending' record
ClaimUpdate(w) ==
  /\ pc[w] = "claimUpdate"
  /\ \/ /\ ClaimThrew(w)
        /\ UNCHANGED ledger
     \/ /\ ledger' = ReclaimUpdate(ledger, record[w], fiveMinutesAgo[w], now)
        /\ IF ReclaimMatches(ledger, record[w], fiveMinutesAgo[w]) # {}
             THEN ClaimTrue(w)
             ELSE ClaimFalse(w)
  /\ UNCHANGED <<nextId, now, games, subscriptions, pushSubscriptions, delivered, crashes>>

\* await storage.markNotificationSending(...) of the email loops; the
\* returned boolean is not looked at
MarkSending(w) ==
  /\ pc[w] = "markSending"
  /\ \/ /\ Continue(w, AddError(result[w], "Failed to mark notification as sending"),
                    Tail(tasks[w]))
        /\ UNCHANGED ledger
     \/ /\ ledger' = markNotificationSending(ledger, CurKey(w), now)
        /\ pc' = [pc EXCEPT ![w] = "send"]
        /\ UNCHANGED <<tasks, result, record, fiveMinutesAgo, passNow>>
  /\ UNCHANGED <<nextId, now, games, subscriptions, pushSubscriptions, delivered, crashes>>

\* the delivery capability answers: send24HourReminder / sendGameDayReminder
\* (true, false or an exception) or sendPushNotification (true or false).
\* sendPushNotification returns false for an invalid or unregistered token
\* and for every other error alike; the pass remembers at "deleteFailedOther"
\* and "deletePushSubOther" that the error was of the other kind, which the
\* boolean does not tell.
Send(w) ==
  /\ pc[w] = "send"
  /\ \/ /\ delivered[CurKey(w)] < MaxDelivered
        /\ delivered' = [delivered EXCEPT ![CurKey(w)] = @ + 1]
        /\ pc' = [pc EXCEPT ![w] = "markSent"]
     \/ /\ pc' = [pc EXCEPT ![w] = "deleteFailed"]
        /\ UNCHANGED delivered
     \/ /\ CurTask(w).channel = "email"
        /\ pc' = [pc EXCEPT ![w] = "deleteThrew"]
        /\ UNCHANGED delivered
     \/ /\ CurTask(w).channel = "push"
        /\ pc' = [pc EXCEPT ![w] = "deleteFailedOther"]
        /\ UNCHANGED delivered
  /\ UNCHANGED <<ledger, nextId, now, games, subscriptions, pushSubscriptions, tasks, result, record,
                 fiveMinutesAgo, passNow, crashes>>

\* await storage.markNotificationSent(...) after a successful delivery
MarkSent(w) ==
  /\ pc[w] = "markSent"
  /\ \/ /\ ledger' = markNotificationSent(ledger, CurKey(w), now)
        /\ Continue(w, [result[w] EXCEPT !.emailsSent = @ + 1], Tail(tasks[w]))
     \/ /\ UNCHANGED ledger
        /\ IF CurTask(w).channel = "email"
             THEN Continue(w, [AddError(result[w], "mark-sent failed")
                                 EXCEPT !.emailsSent = @ + 1], Tail(tasks[w]))
             ELSE PushError(w)
  /\ UNCHANGED <<nextId, now, games, subscriptions, pushSubscriptions, delivered, crashes>>

\* await storage.deleteNotificationRecord(...) after a failed delivery
Delete(w) ==
  /\ pc[w] \in {"deleteFailed", "deleteThrew", "deleteFailedOther"}
  /\ \/ /\ ledger' = deleteNotificationRecord(ledger, CurKey(w))
        /\ IF CurTask(w).channel = "email"
             THEN Continue(w, AddError(result[w],
                                 IF pc[w] = "deleteThrew" THEN "Email send threw error"
                                                          ELSE "Email delivery failed"),
                           Tail(tasks[w]))
             ELSE /\ pc' = [pc EXCEPT ![w] = IF pc[w] = "deleteFailedOther"
                                               THEN "deletePushSubOther"
                                               ELSE "deletePushSub"]
                  /\ UNCHANGED <<tasks, result, record, fiveMinutesAgo, passNow>>
     \/ /\ UNCHANGED ledger
        /\ IF CurTask(w).channel = "email" THEN SystemError(w) ELSE PushError(w)
  /\ UNCHANGED <<nextId, now, games, subscriptions, pushSubscriptions, delivered, crashes>>

\* await storage.deletePushSubscriptionByToken(pushSub.fcmToken)
DeletePushSub(w) ==
  /\ pc[w] \in {"deletePushSub", "deletePushSubOther"}
  /\ \/ /\ pushSubscriptions' = deletePushSubscriptionByToken(pushSubscriptions, CurTask(w).fcmToken)
        /\ Continue(w, result[w], Tail(tasks[w]))
     \/ /\ UNCHANGED pushSubscriptions
        /\ PushError(w)
  /\ UNCHANGED <<ledger, nextId, now, games, subscriptions, delivered, crashes>>

\* the push section starts: await storage.getAllPushSubscriptions()
LoadPush(w) ==
  /\ pc[w] = "loadPush"
  /\ \/ PushError(w)
     \/ Continue(w, result[w],
                 PushTasks(games, getAllPushSubscriptions(pushSubscriptions), passNow[w]))
  /\ UNCHANGED <<ledger, nextId, now, games, subscriptions, pushSubscriptions, delivered, crashes>>

\* the caller has got the NotificationCheck: performNotificationCheck logs it
Exit(w) ==
  /\ pc[w] = "done"
  /\ pc' = [pc EXCEPT ![w] = "idle"]
  /\ result' = [result EXCEPT ![w] = EmptyResult]
  /\ UNCHANGED <<ledger, nextId, now, games, subscriptions, pushSubscriptions, tasks, record,
                 fiveMinutesAgo, passNow, delivered, crashes>>

(***************************************************************************)
(* The environment: the clock advances, a server process dies.             *)
(***************************************************************************)
Tick ==
  /\ \E d \in TickSteps :
       /\ now + d <= MaxNow
       /\ now' = now + d
  /\ UNCHANGED <<ledger, nextId, games, subscriptions, pushSubscriptions, pc, tasks, result, record,
                 fiveMinutesAgo, passNow, delivered, crashes>>

\* the process running pass w dies; its replacement starts with no pass running
Crash(w) ==
  /\ pc[w] \notin {"idle", "done"}
  /\ crashes < MaxCrashes
  /\ crashes' = crashes + 1
  /\ pc' = [pc EXCEPT ![w] = "idle"]
  /\ tasks' = [tasks EXCEPT ![w] = <<>>]
  /\ result' = [result EXCEPT ![w] = EmptyResult]
  /\ record' = [record EXCEPT ![w] = NoRecord]
  /\ fiveMinutesAgo' = [fiveMinutesAgo EXCEPT ![w] = NULL]
  /\ passNow' = [passNow EXCEPT ![w] = NULL]
  /\ UNCHANGED <<ledger, nextId, now, games, subscriptions, pushSubscriptions, delivered>>

\* a step of pass w between its start and its return
PassStep(w) ==
  \/ TryInsert(w)
  \/ ClaimSelect(w)
  \/ ClaimUpdate(w)
  \/ MarkSending(w)
  \/ Send(w)
  \/ MarkSent(w)
  \/ Delete(w)
  \/ DeletePushSub(w)
  \/ LoadPush(w)

\* no pass has returned a result that its caller has not taken yet; the
\* caller's continuation runs before any other event is handled
NoneDone == \A w \in Workers : pc[w] # "done"

Next ==
  \/ NoneDone /\ \E w \in Workers : StartPass(w)
  \/ NoneDone /\ \E w \in Workers : PassStep(w)
  \/ NoneDone /\ \E w \in Workers : Crash(w)
  \/ NoneDone /\ Tick
  \/ \E w \in Workers : Exit(w)

Spec == Init /\ [][Next]_vars

(***************************************************************************)
(* Two passes in immediate succession: triggerManualNotificationCheck is   *)
(* called, its pass returns, and it is called again at once.  The clock    *)
(* does not advance and no process dies.  The result of the first pass is  *)
(* kept for comparison with the second.                                    *)
(***************************************************************************)
\* the second call is made once the first has returned
SeqTurn(w) == IF w = "w1" THEN pc["w2"] = "idle" ELSE pc["w1"] = "done"

SeqNext ==
  \/ \E w \in Workers : SeqTurn(w) /\ StartPass(w)
  \/ \E w \in Workers : SeqTurn(w) /\ PassStep(w)

SeqSpec == Init /\ [][SeqNext]_vars

(***************************************************************************)
(* One server process running pass after pass over tables with two         *)
(* interested email subscribers, or two interested push targets, or one    *)
(* of each.  The clock advances; the process does not die.                 *)
(***************************************************************************)
BatchWorlds ==
  { [subscriptions |-> << [id |-> "s1", sports |-> {"Hockey"}],
                          [id |-> "s2", sports |-> {"Hockey"}] >>, push |-> {}],
    [subscriptions |-> << [id |-> "s1", sports |-> {"Golf"}] >>,
     push |-> {PushSubscriptionRows[1], PushSubscriptionRows[3]}],
    [subscriptions |-> << [id |-> "s1", sports |-> {"Hockey"}] >>,
     push |-> {PushSubscriptionRows[1]}] }

BatchKeys ==
  { <<g, s, k>> : g \in {"g1", "g2"}, s \in {"s1", "s2", "p1", "p2"}, k \in NotificationTypes }

BatchInit ==
  /\ ledger = {}
  /\ nextId = 1
  /\ now = StartNow
  /\ games = Games
  /\ \E world \in BatchWorlds :
       /\ subscriptions = world.subscriptions
       /\ pushSubscriptions = world.push
  /\ pc = [w \in Workers |-> "idle"]
  /\ tasks = [w \in Workers |-> <<>>]
  /\ result = [w \in Workers |-> EmptyResult]
  /\ record = [w \in Workers |-> NoRecord]
  /\ fiveMinutesAgo = [w \in Workers |-> NULL]
  /\ passNow = [w \in Workers |-> NULL]
  /\ delivered = [k \in BatchKeys |-> 0]
  /\ crashes = 0

\* the one process that runs the passes
BatchWorkers == {"w1"}

BatchNext ==
  \/ \E w \in BatchWorkers : StartPass(w)
  \/ \E w \in BatchWorkers : PassStep(w)
  \/ \E w \in BatchWorkers : Exit(w)
  \/ NoneDone /\ Tick

BatchSpec == BatchInit /\ [][BatchNext]_vars

(***************************************************************************)
(* The eligibility computation on its own: the body of the loop over the   *)
(* games is run for one game of a table of games with varied dates and     *)
(* time strings, at a clock value drawn from a grid that holds the full    *)
(* hours of two days and the minutes next to them.  The one subscriber is  *)
(* interested in every game.  `start` is the local start time the date and *)
(* the time string of the game stand for.                                  *)
(***************************************************************************)
WindowGames ==
  { [id |-> "g1", sport |-> "Hockey", date |-> 1440, start |-> 1440 + 10 * 60,
     time |-> <<"1", "0", ":", "0", "0", " ", "A", "M">>],
    [id |-> "g2", sport |-> "Hockey", date |-> 0, start |-> 15 * 60,
     time |-> <<"3", ":", "0", "0", " ", "p", "m">>],
    [id |-> "g3", sport |-> "Hockey", date |-> 1440, start |-> 1440,
     time |-> <<"1", "2", ":", "0", "0", " ", "A", "M">>],
    [id |-> "g4", sport |-> "Hockey", date |-> 1440, start |-> 1440 + 12 * 60 + 30,
     time |-> <<"1", "2", ":", "3", "0", "P", "M">>],
    [id |-> "g5", sport |-> "Hockey", date |-> 1440, start |-> 1440 + 23 * 60 + 59,
     time |-> <<"1", "1", ":", "5", "9", " ", "P", "M">>],
    [id |-> "g6", sport |-> "Hockey", date |-> 1440 + 5 * 60, start |-> 1440 + 5 * 60,
     time |-> <<"T", "B", "D">>],
    [id |-> "g7", sport |-> "Hockey", date |-> 1440 + 5 * 60, start |-> 1440 + 19 * 60,
     time |-> <<"7", ":", "0", "0", " ", "P", "M">>] }

WindowNows == { h * 60 + m : h \in 0..47, m \in {0, 1, 59} }

WindowInit ==
  /\ ledger = {}
  /\ nextId = 1
  /\ now \in WindowNows
  /\ games = Games
  /\ subscriptions = << [id |-> "s1", sports |-> {"Hockey"}] >>
  /\ pushSubscriptions = {}
  /\ pc = [w \in Workers |-> "idle"]
  /\ tasks = [w \in Workers |-> <<>>]
  /\ result = [w \in Workers |-> EmptyResult]
  /\ record = [w \in Workers |-> NoRecord]
  /\ fiveMinutesAgo = [w \in Workers |-> NULL]
  /\ passNow = [w \in Workers |-> NULL]
  /\ delivered = [k \in Keys |-> 0]
  /\ crashes = 0

\* the body of `for (const game of games)` up to the loops over the
\* subscribers: what is to be sent for the game at `now`
EvalGame(w, game) ==
  /\ tasks' = [tasks EXCEPT ![w] =
                 GameTasks(game, subscriptions,
                           needs24HourNotification(game, now),
                           needsMorningNotification(game, now))]
  /\ UNCHANGED <<ledger, nextId, now, games, subscriptions, pushSubscriptions, pc, result, record,
                 fiveMinutesAgo, passNow, delivered, crashes>>

WindowNext == \E game \in WindowGames : EvalGame("w1", game)

WindowSpec == WindowInit /\ [][WindowNext]_vars

(***************************************************************************)
(* Passes that keep running: the cron job fires again and again, the       *)
(* clock reaches the last instant modelled, and the store throws and       *)
(* processes die only at the first instant, so that every record left      *)
(* behind has time to turn stale and every later pass meets a working      *)
(* store.                                                                  *)
(***************************************************************************)
StoreErrors ==
  {"System error", "Push notification error", "Failed to record notification",
   "Failed to mark notification as sending", "mark-sent failed"}

\* this step of pass w is one in which a statement of the store threw
StoreThrew(w) ==
  \/ \E e \in StoreErrors : result'[w].errors = Append(result[w].errors, e)
  \/ /\ tasks'[w] # tasks[w]
     /\ tasks[w] # <<>>
     /\ CurTask(w).channel = "push"
     /\ \/ pc[w] = "claim"
        \/ pc[w] = "claimSelect" /\ \E rec \in Matching(ledger, CurKey(w)) : IsStale(rec, now)
        \/ pc[w] = "claimUpdate" /\ ReclaimMatches(ledger, record[w], fiveMinutesAgo[w]) # {}

\* a step of pass w, its start included
AnyStep(w) == NoneDone /\ (StartPass(w) \/ PassStep(w))

LiveStep(w) == AnyStep(w) /\ (StoreThrew(w) => now = StartNow)

LiveCrash(w) == NoneDone /\ now = StartNow /\ Crash(w)

LiveTick == NoneDone /\ Tick /\ now' = MaxNow

LiveNext ==
  \/ \E w \in Workers : LiveStep(w)
  \/ \E w \in Workers : LiveCrash(w)
  \/ LiveTick
  \/ \E w \in Workers : Exit(w)

\* the clock goes on, every pass that can take a step does, every caller
\* takes the result of its pass
LiveSpec ==
  /\ Init
  /\ [][LiveNext]_vars
  /\ SF_vars(NoneDone /\ Tick)
  /\ \A w \in Workers : SF_vars(AnyStep(w)) /\ WF_vars(Exit(w))

TypeOK ==
  /\ now \in StartNow..MaxNow
  /\ nextId \in 1..(MaxInserts + 1)
  /\ crashes \in 0..MaxCrashes
  /\ \A k \in Keys : delivered[k] \in 0..MaxDelivered
  /\ \A r \in ledger : r.status \in {"pending", "sending", "sent"} /\ KeyOf(r) \in Keys
  /\ \A w \in Workers : pc[w] \in {"idle", "done", "claim", "claimSelect", "claimUpdate", "markSending",
                                   "send", "markSent", "deleteFailed", "deleteThrew",
                                   "deleteFailedOther", "deletePushSub",
                                   "deletePushSubOther", "loadPush"}

(***************************************************************************)
(* Vocabulary of the properties.                                           *)
(***************************************************************************)
ClaimPcs == {"claim", "claimSelect", "claimUpdate"}

\* this step is pass w's tryRecordNotificationAtomically returning true
ReturnsTrue(w) == pc[w] \in ClaimPcs /\ pc'[w] \in {"markSending", "send"}

\* the row that pass w read in its SELECT is still as it was read
Unchanged(l, rec) ==
  \E r \in l : r.id = rec.id /\ r.status = rec.status /\ r.createdAt = rec.createdAt

\* the last entry of the error list of pass w
LastError(res) == IF res.errors = <<>> THEN "" ELSE res.errors[Len(res.errors)]

EmailKey == <<"g1", "s1", "24hour">>
PushKey == <<"g1", "p1", "24hour-push">>
GameDayPushKey == <<"g2", "p1", "gameday-push">>

\* C1: in every reachable state the ledger holds at most one record per
\* (gameId, subscriptionId, notificationType).
C1_Uniqueness ==
  \A r1 \in ledger : \A r2 \in ledger : KeyOf(r1) = KeyOf(r2) => r1 = r2

\* two passes raced on a key: one inserted the record, the other got error 23505
C1_Witness ==
  \E w \in Workers : \E v \in Workers \ {w} :
    /\ pc[w] \in {"markSending", "send"}
    /\ pc[v] = "claimSelect"
    /\ CurKey(w) = CurKey(v)
    /\ Cardinality(Matching(ledger, CurKey(w))) = 1

\* both passes of the succession have returned and neither reported an error,
\* and every record the first pass left is a sent one that it counted
FirstPassDeliveredAll ==
  /\ pc["w1"] = "done" /\ pc["w2"] = "done"
  /\ result["w1"].errors = <<>> /\ result["w2"].errors = <<>>
  /\ result["w1"].emailsSent = Cardinality({ r \in ledger : r.status = "sent" })

\* C2: when a second pass runs immediately after a first one that delivered,
\* the second pass delivers nothing and its skippedDuplicates count equals
\* the number of keys the first pass delivered.
C2_SecondPassSkipsAll ==
  FirstPassDeliveredAll =>
    /\ result["w2"].emailsSent = 0
    /\ result["w2"].skippedDuplicates = result["w1"].emailsSent

\* the other passes that read the same version of the row and have not yet
\* run their conditional UPDATE
Racers(w) ==
  { v \in Workers \ {w} : pc[v] = "claimUpdate" /\ record[v] = record[w] }

\* the reclaim of a stale record of status st by pass w: it wins only if the
\* row is still as every racer read it, the winner leaves the row pending
\* with createdAt = now, and after a win no other racer's UPDATE matches
ReclaimOnce(w, st) ==
  (pc[w] = "claimUpdate" /\ record[w].status = st /\ ReturnsTrue(w)) =>
    /\ Unchanged(ledger, record[w])
    /\ record[w].createdAt < now - StaleMinutes
    /\ \A r \in Matching(ledger', CurKey(w)) :
         r.id = record[w].id /\ r.status = "pending" /\ r.createdAt = now /\ r.sentAt = NULL
    /\ Cardinality(Matching(ledger', CurKey(w))) = 1
    /\ \A v \in Racers(w) : ~Unchanged(ledger', record[v])

\* a pass whose reclaim returns false (counted as a skipped duplicate) lost
\* the race: the row is no longer as it read it
ReclaimLost(w, st) ==
  (/\ pc[w] = "claimUpdate" /\ record[w].status = st
   /\ result'[w].skippedDuplicates = result[w].skippedDuplicates + 1) =>
    ~Unchanged(ledger, record[w])

\* C3: among the tryClaim calls racing on a pending record that is more than
\* 5 minutes old exactly one returns true, the others return false, and the
\* winner leaves the record pending with createdAt refreshed to now.
C3_StalePendingClaimedOnce ==
  [][\A w \in Workers : ReclaimOnce(w, "pending") /\ ReclaimLost(w, "pending")]_vars

\* two passes have read the same stale pending row; one has reclaimed it and
\* the other is about to run its UPDATE
C3_Witness ==
  \E w \in Workers : \E v \in Workers \ {w} :
    /\ pc[v] = "claimUpdate" /\ record[v].status = "pending"
    /\ pc[w] \in {"markSending", "send"} /\ CurKey(w) = CurKey(v)
    /\ \E r \in ledger : r.id = record[v].id /\ r.status = "pending" /\ r.createdAt = now
    /\ ~Unchanged(ledger, record[v])

\* C4: among the tryClaim calls racing on a sending record that is more than
\* 5 minutes old exactly one returns true, the others return false, and the
\* winner resets the record to pending with createdAt refreshed to now.
C4_StaleSendingClaimedOnce ==
  [][\A w \in Workers : ReclaimOnce(w, "sending") /\ ReclaimLost(w, "sending")]_vars

\* two passes have read the same stale sending row; one has reset it to
\* pending and the other is about to run its UPDATE
C4_Witness ==
  \E w \in Workers : \E v \in Workers \ {w} :
    /\ pc[v] = "claimUpdate" /\ record[v].status = "sending"
    /\ pc[w] = "markSending" /\ CurKey(w) = CurKey(v)
    /\ \E r \in ledger : r.id = record[v].id /\ r.status = "pending" /\ r.createdAt = now

HasSent(l, k) == \E r \in Matching(l, k) : r.status = "sent"

\* C5: a tryClaim on a key whose record has status sent never returns true
\* and leaves the ledger unchanged, however old the record is.
C5_SentNeverReclaimed ==
  [][\A w \in Workers :
       (pc[w] \in ClaimPcs /\ pc'[w] # pc[w] /\ HasSent(ledger, CurKey(w))) =>
         (~ReturnsTrue(w) /\ ledger' = ledger)]_vars

\* a tryClaim has hit the unique constraint on a sent record older than 5 minutes
C5_Witness ==
  \E w \in Workers :
    /\ pc[w] = "claimSelect"
    /\ \E r \in Matching(ledger, CurKey(w)) : r.status = "sent" /\ r.createdAt < now - StaleMinutes

\* C6: a record that has reached status sent is never deleted and never
\* changes status again.
C6_SentIsForever ==
  [][\A r \in ledger :
       r.status = "sent" => \E r2 \in ledger' : r2.id = r.id /\ r2.status = "sent"]_vars

\* C7: as long as no process has died, the delivery capability has succeeded
\* at most once for every key.
C7_NoDuplicateWithoutCrash ==
  crashes = 0 => \A k \in Keys : delivered[k] <= 1

\* this step is pass w completing deleteNotificationRecord after a delivery
\* that returned false (email: the error is recorded; push: the push
\* subscription is deleted next)
DeletedAfterFalse(w) ==
  /\ pc[w] = "deleteFailed"
  /\ \/ /\ CurTask(w).channel = "email"
        /\ result'[w].errors = Append(result[w].errors, "Email delivery failed")
     \/ /\ CurTask(w).channel = "push"
        /\ pc'[w] = "deletePushSub"

\* C8: when the delivery capability returned false, the orchestrator deletes
\* the record of the key, so that the INSERT of an immediate tryClaim on the
\* key succeeds.
C8_FailedDeliveryReleasesClaim ==
  [][\A w \in Workers :
       DeletedAfterFalse(w) =>
         /\ Matching(ledger', CurKey(w)) = {}
         /\ ~UniqueViolation(ledger', CurKey(w))
         /\ ledger' \subseteq ledger]_vars

\* an email delivery returned false and the record of the key is gone
C8_Witness ==
  \E w \in Workers :
    /\ LastError(result[w]) = "Email delivery failed"
    /\ Matching(ledger, EmailKey) = {}
    /\ nextId > 1

\* this step is pass w completing deleteNotificationRecord after a delivery that threw
DeletedAfterThrow(w) ==
  /\ pc[w] = "deleteThrew"
  /\ LastError(result'[w]) = "Email send threw error"
  /\ Len(result'[w].errors) > Len(result[w].errors)

\* C9: a delivery that throws is handled like one that returns false: the
\* record is deleted, exactly one error is reported for the key, no delivery
\* is counted, and the INSERT of an immediate tryClaim on the key succeeds.
C9_ThrownDeliveryReleasesClaim ==
  [][\A w \in Workers :
       /\ DeletedAfterThrow(w) =>
            /\ ledger' = { r \in ledger : KeyOf(r) # CurKey(w) }
            /\ Matching(ledger', CurKey(w)) = {}
            /\ ~UniqueViolation(ledger', CurKey(w))
            /\ Len(result'[w].errors) = Len(result[w].errors) + 1
            /\ result'[w].emailsSent = result[w].emailsSent
            /\ result'[w].skippedDuplicates = result[w].skippedDuplicates
       /\ (pc[w] = "send" /\ pc'[w] \in {"deleteFailed", "deleteThrew"}) =>
            /\ ledger' = ledger
            /\ result' = result
            /\ delivered' = delivered]_vars

\* an email delivery threw and the record of the key is gone
C9_Witness ==
  \E w \in Workers :
    /\ LastError(result[w]) = "Email send threw error"
    /\ Len(result[w].errors) = 1
    /\ result[w].emailsSent = 0
    /\ Matching(ledger, EmailKey) = {}
    /\ nextId > 1

\* a record of key k is waiting in pending or sending
Stuck(k) == \E r \in Matching(ledger, k) : r.status \in {"pending", "sending"}

\* no record of key k is waiting: it is sent or deleted
Released(k) == \A r \in Matching(ledger, k) : r.status = "sent"

\* C10: while passes keep running, every record in pending or sending
\* eventually ends as sent or deleted.
C10_NoClaimStuckForever == \A k \in Keys : Stuck(k) ~> Released(k)

\* the status steps of the protocol: pending to sending (markSending),
\* sending to sent (markSent), sending to pending (stale reclaim)
StatusSteps == { <<"pending", "sending">>, <<"sending", "sent">>, <<"sending", "pending">> }

\* C11: the status of a record changes only from pending to sending, from
\* sending to sent, or back from sending to pending; in particular never
\* from pending directly to sent.
C11_StatusOrder ==
  [][\A r \in ledger : \A r2 \in ledger' :
       (r2.id = r.id /\ r2.status # r.status) => <<r.status, r2.status>> \in StatusSteps]_vars

\* C12: while a delivery call for a key is in flight, the record of the key
\* has status sending.
C12_SendingWhileInFlight ==
  \A w \in Workers :
    pc[w] = "send" => \E r \in Matching(ledger, CurKey(w)) : r.status = "sending"

\* the record of the key pass w is claiming is pending or sending and at
\* most 5 minutes old
FreshInFlight(w) ==
  \E r \in Matching(ledger, CurKey(w)) :
    r.status \in {"pending", "sending"} /\ now - r.createdAt <= StaleMinutes

\* C13: a tryClaim on a key whose record is pending or sending and at most
\* 5 minutes old (exactly 5 minutes included) does not return true, does not
\* go on to the reclaiming UPDATE and writes nothing.
C13_FreshNotReclaimed ==
  [][\A w \in Workers :
       (pc[w] \in ClaimPcs /\ pc'[w] # pc[w] /\ FreshInFlight(w)) =>
         /\ ~ReturnsTrue(w)
         /\ pc[w] = "claimSelect" => pc'[w] # "claimUpdate"
         /\ ledger' = ledger]_vars

\* a pass has skipped a key whose record is in flight and exactly 5 minutes old
C13_Witness ==
  \E w \in Workers :
    /\ result[w].skippedDuplicates = 1
    /\ pc[w] \in {"loadPush", "done"}
    /\ \E r \in Matching(ledger, EmailKey) :
         r.status \in {"pending", "sending"} /\ now - r.createdAt = StaleMinutes

\* the awaits of the processing of one (game, subscriber) pair
PairPcs ==
  {"claim", "claimSelect", "claimUpdate", "markSending", "send", "markSent",
   "deleteFailed", "deleteThrew", "deleteFailedOther", "deletePushSub",
   "deletePushSubOther"}

\* the (game, subscriber) pairs in a work list
RemainingPairs(ts) == SelectSeq(ts, LAMBDA t : t.op = "notify")

\* C14: whatever ends the processing of a (game, subscriber) pair, a throw
\* or false of any of its steps included, the pass goes on with every
\* remaining pair.
C14_FailureDoesNotStopPass ==
  [][\A w \in Workers :
       (pc[w] \in PairPcs /\ tasks'[w] # tasks[w]) =>
         RemainingPairs(tasks'[w]) = RemainingPairs(Tail(tasks[w]))]_vars

\* this step is pass w failing to load the games or the email subscribers
LoadFailed(w) == pc[w] = "idle" /\ LastError(result'[w]) = "System error"

\* this step is pass w failing to load the push targets
PushLoadFailed(w) ==
  pc[w] = "loadPush" /\ pc'[w] = "done" /\ LastError(result'[w]) = "Push notification error"

\* C15 (as stated): when loading the games, the email subscribers or the
\* push targets fails, the pass ends with a single error entry and has
\* delivered nothing and written no ledger record.
C15_LoadFailureBeforeAnyWrite ==
  [][\A w \in Workers :
       (LoadFailed(w) \/ PushLoadFailed(w)) =>
         /\ Len(result'[w].errors) = 1
         /\ result'[w].emailsSent = 0
         /\ ledger' = ledger]_vars

\* C15 (amended): a failure to load the games or the email subscribers ends
\* the pass with the single entry "System error" and nothing else counted;
\* a failure to load the push targets appends exactly one entry to what the
\* email section has reported, keeps its counts, and skips the push
\* section.  Neither step writes the ledger.
C15_LoadFailureReported ==
  [][\A w \in Workers :
       /\ LoadFailed(w) =>
            /\ result'[w] = [EmptyResult EXCEPT !.errors = <<"System error">>]
            /\ pc'[w] = "done"
            /\ ledger' = ledger
       /\ PushLoadFailed(w) =>
            /\ result'[w] =
                 [result[w] EXCEPT !.errors = Append(@, "Push notification error")]
            /\ tasks'[w] = <<>>
            /\ ledger' = ledger]_vars

\* the push targets could not be loaded after the email section had
\* delivered a reminder and marked its record sent
C15_Witness ==
  \E w \in Workers :
    /\ pc[w] = "done"
    /\ pushSubscriptions = {}
    /\ result[w].errors = <<"Push notification error">>
    /\ result[w].emailsSent = 1
    /\ HasSent(ledger, EmailKey)

\* this step is pass w catching a throw of markNotificationSent in an email loop
MarkSentFailed(w) ==
  /\ pc[w] = "markSent"
  /\ CurTask(w).channel = "email"
  /\ result'[w].errors = Append(result[w].errors, "mark-sent failed")

\* this step is a statement of pass w's tryClaim on an email key that ran
\* without a throw of the store or a death of the process
ClaimStepOf(w) ==
  /\ pc[w] \in ClaimPcs
  /\ CurTask(w).channel = "email"
  /\ pc'[w] \notin {pc[w], "idle"}
  /\ result'[w].errors = result[w].errors

HasTask(ts, g, kind) ==
  \E i \in 1..Len(ts) :
    ts[i].op = "notify" /\ ts[i].gameId = g.id /\ ts[i].notificationType = kind

\* the time of day of t, in minutes
TimeOfDay(t) == t % MinutesPerDay

\* C17: a game gets a 24-hour reminder exactly when it starts more than 21
\* and at most 27 hours after now (at now+21h01m and at now+27h yes, at
\* now+21h and at now+27h01m no).
C17_DayBeforeWindow ==
  [][\A g \in WindowGames :
       EvalGame("w1", g) =>
         (HasTask(tasks'["w1"], g, "24hour") <=>
            (g.start - now > 21 * 60 /\ g.start - now <= 27 * 60))]_vars

\* a game that starts in exactly 27 hours has got its 24-hour reminder
C17_Witness ==
  \E g \in WindowGames :
    /\ g.start - now = 27 * 60
    /\ HasTask(tasks["w1"], g, "24hour")

\* C18 (as stated): a game gets a game-day reminder exactly when it is on
\* the date of now and the time of day of now is in [08:00, 09:00).
C18_MorningWindowFrom8 ==
  [][\A g \in WindowGames :
       EvalGame("w1", g) =>
         (HasTask(tasks'["w1"], g, "gameday") <=>
            (/\ g.start \div MinutesPerDay = now \div MinutesPerDay
             /\ TimeOfDay(now) >= 8 * 60
             /\ TimeOfDay(now) < 9 * 60))]_vars

\* C18 (amended): a game gets a game-day reminder exactly when it is on the
\* date of now and the time of day of now is after 08:00 and before 09:00;
\* 08:00 sharp and 09:00 sharp are both outside.
C18_MorningWindowAfter8 ==
  [][\A g \in WindowGames :
       EvalGame("w1", g) =>
         (HasTask(tasks'["w1"], g, "gameday") <=>
            (/\ g.start \div MinutesPerDay = now \div MinutesPerDay
             /\ TimeOfDay(now) > 8 * 60
             /\ TimeOfDay(now) < 9 * 60))]_vars

\* at 08:01 a game of the day has got its game-day reminder
C18_Witness ==
  \E g \in WindowGames :
    /\ TimeOfDay(now) = 8 * 60 + 1
    /\ g.start \div MinutesPerDay = now \div MinutesPerDay
    /\ HasTask(tasks["w1"], g, "gameday")

\* C19: no game gets a 24-hour reminder and a game-day reminder from the
\* same evaluation.
C19_OneWindowAtMost ==
  \A w \in Workers : \A g \in WindowGames :
    ~(HasTask(tasks[w], g, "24hour") /\ HasTask(tasks[w], g, "gameday"))

\* at 08:01 of the day before, a game of the next morning has got its
\* 24-hour reminder and no game-day reminder
C19_Witness ==
  \E g \in WindowGames :
    /\ TimeOfDay(now) = 8 * 60 + 1
    /\ g.start - now = 26 * 60 - 1
    /\ HasTask(tasks["w1"], g, "24hour")
    /\ ~HasTask(tasks["w1"], g, "gameday")

\* this step is pass w completing deletePushSubscriptionByToken
PushSubDeleteRan(w) ==
  /\ pc[w] \in {"deletePushSub", "deletePushSubOther"}
  /\ pc'[w] \notin {pc[w], "idle"}
  /\ result'[w].errors = result[w].errors

\* C20: the push target is removed from push_subscriptions when the push
\* failed for an invalid or unregistered token, and is kept when the push
\* failed for any other reason (the ledger record being deleted in both cases).
C20_TargetRemovedOnlyForInvalidToken ==
  [][\A w \in Workers :
       /\ (PushSubDeleteRan(w) /\ pc[w] = "deletePushSub") =>
            \A p \in pushSubscriptions' : p.fcmToken # CurTask(w).fcmToken
       /\ (pc[w] = "deleteFailedOther" /\ pc'[w] \notin {pc[w], "idle", "done"}) =>
            /\ Matching(ledger', CurKey(w)) = {}
            /\ pc'[w] # "deletePushSubOther"
       /\ (PushSubDeleteRan(w) /\ pc[w] = "deletePushSubOther") =>
            pushSubscriptions' = pushSubscriptions]_vars

\* this step is pass w returning right after its start without an error
ReturnedAtOnce(w) ==
  pc[w] = "idle" /\ pc'[w] = "done" /\ result'[w].errors = <<>>

\* C21: a pass does not return before its push section while a push target
\* is interested in an eligible game, whether or not there is any email
\* subscriber.
C21_PushIndependentOfEmail ==
  [][\A w \in Workers :
       ReturnedAtOnce(w) =>
         PushTasks(Games, getAllPushSubscriptions(pushSubscriptions), now) = <<>>]_vars

(***************************************************************************)
(* The triggers of a pass: the hourly job and the manual request.  The     *)
(* first server process runs the hourly job, the second one serves the     *)
(* manual requests; the clock is the Eastern wall clock and advances by    *)
(* the hour from 02:15 to 08:15.                                           *)
(***************************************************************************)
QUIET_HOURS_START == 0
QUIET_HOURS_END == 5
CronMinute == 15
TriggerStart == 2 * MinutesPerHour + CronMinute
TriggerEnd == 8 * MinutesPerHour + CronMinute
CronWorker == "w1"
ManualWorker == "w2"

\* Date.getHours of the Eastern wall-clock time
getHours(t) == (t % MinutesPerDay) \div MinutesPerHour

isQuietHours_Never(t) == FALSE

\* the quiet hours ending at 06:00
isQuietHours_UntilSix(t) ==
  getHours(t) >= QUIET_HOURS_START /\ getHours(t) < QUIET_HOURS_END + 1

isQuietHours(t) ==
  getHours(t) >= QUIET_HOURS_START /\ getHours(t) < QUIET_HOURS_END

\* the hourly job fires at minute 15 and calls performNotificationCheck
performNotificationCheck(w) ==
  /\ (now % MinutesPerHour) = CronMinute
  /\ IF isQuietHours(now)
       THEN UNCHANGED vars
       ELSE StartPass(w)

triggerManualNotificationCheck(w) == StartPass(w)

TriggerTick ==
  /\ now + MinutesPerHour <= TriggerEnd
  /\ now' = now + MinutesPerHour
  /\ UNCHANGED <<ledger, nextId, games, subscriptions, pushSubscriptions, pc, tasks, result, record,
                 fiveMinutesAgo, passNow, delivered, crashes>>

TriggerInit ==
  /\ ledger = {}
  /\ nextId = 1
  /\ now = TriggerStart
  /\ games = Games
  /\ \E world \in Worlds :
       /\ subscriptions = world.subscriptions
       /\ pushSubscriptions = world.push
  /\ pc = [w \in Workers |-> "idle"]
  /\ tasks = [w \in Workers |-> <<>>]
  /\ result = [w \in Workers |-> EmptyResult]
  /\ record = [w \in Workers |-> NoRecord]
  /\ fiveMinutesAgo = [w \in Workers |-> NULL]
  /\ passNow = [w \in Workers |-> NULL]
  /\ delivered = [k \in Keys |-> 0]
  /\ crashes = 0

TriggerNext ==
  \/ \E w \in Workers : w = CronWorker /\ performNotificationCheck(w)
  \/ \E w \in Workers : w = ManualWorker /\ triggerManualNotificationCheck(w)
  \/ \E w \in Workers : PassStep(w)
  \/ \E w \in Workers : Exit(w)
  \/ TriggerTick

TriggerSpec == TriggerInit /\ [][TriggerNext]_vars

\* this step starts a pass of worker w
PassStarts(w) == pc[w] = "idle" /\ pc'[w] # "idle"

\* C22: the hourly job never starts a pass while the Eastern hour is 0 to 4
\* (at 05:15 it does), and a manually requested pass starts at any hour.
C22_ScheduledTriggerQuietHours ==
  [][PassStarts(CronWorker) => getHours(now) \notin 0..4]_vars

\* a manual pass that started at 04:15 is still running at 05:15, when the
\* hourly job has started one too
C22_Witness ==
  /\ now = 5 * MinutesPerHour + CronMinute
  /\ pc[ManualWorker] \notin {"idle", "done"}
  /\ passNow[ManualWorker] = 4 * MinutesPerHour + CronMinute
  /\ pc[CronWorker] \notin {"idle", "done"}
  /\ passNow[CronWorker] = now

\* this step is pass w's tryRecordNotificationAtomically returning false:
\* the key has a record that is not stale, or the conditional UPDATE matched
\* no row, and the pass goes on to its next pair without an error
ReturnsFalse(w) ==
  /\ \/ /\ pc[w] = "claimSelect"
        /\ \A rec \in Matching(ledger, CurKey(w)) : ~IsStale(rec, now)
     \/ /\ pc[w] = "claimUpdate"
        /\ ReclaimMatches(ledger, record[w], fiveMinutesAgo[w]) = {}
  /\ tasks'[w] # tasks[w]
  /\ pc'[w] # "idle"
  /\ result'[w].errors = result[w].errors

\* C23: every tryClaim of a pass that returns false, for an email or a push
\* kind, adds one to the skippedDuplicates count of the pass.
C23_EveryFalseClaimCounted ==
  [][\A w \in Workers :
       ReturnsFalse(w) =>
         result'[w].skippedDuplicates = result[w].skippedDuplicates + 1]_vars

DeletePcs == {"deleteFailed", "deleteThrew", "deleteFailedOther"}

\* this step is pass w going on to its next pair after a delivery that
\* failed, no storage call having thrown
FailureHandled(w) ==
  /\ pc[w] \in DeletePcs \cup {"deletePushSub", "deletePushSubOther"}
  /\ tasks'[w] # tasks[w]
  /\ pc'[w] # "idle"
  /\ LastError(result'[w]) \notin {"System error", "Push notification error"}

\* C24: every delivery that failed, email or push, by returning false or by
\* throwing, has its record deleted and has added an entry to the errors
\* list of the pass when the pass goes on to its next pair.
C24_FailedDeliveryReported ==
  [][\A w \in Workers :
       /\ (pc[w] \in DeletePcs /\ pc'[w] \notin {pc[w], "idle"} /\
           LastError(result'[w]) \notin {"System error", "Push notification error"}) =>
            Matching(ledger', CurKey(w)) = {}
       /\ FailureHandled(w) =>
            Len(result'[w].errors) = Len(result[w].errors) + 1]_vars

\* the ids of the records of a ledger
Ids(l) == { r.id : r \in l }

\* C25: a record appears in the ledger only in the step of a tryClaim whose
\* INSERT succeeds (a pending record of the claimed key), and a record
\* disappears only in the deleteNotificationRecord step of a pass whose own
\* delivery for the record's key has just failed; every other step keeps
\* the set of records.
C25_RecordLifecycle ==
  [][/\ \A r \in ledger' :
          r.id \notin Ids(ledger) =>
            \E w \in Workers :
              /\ pc[w] = "claim"
              /\ ReturnsTrue(w)
              /\ KeyOf(r) = CurKey(w)
              /\ r.status = "pending"
              /\ ledger' = ledger \cup {r}
     /\ \A r \in ledger :
          r.id \notin Ids(ledger') =>
            \E w \in Workers :
              /\ pc[w] \in DeletePcs
              /\ pc'[w] \notin {pc[w], "idle"}
              /\ KeyOf(r) = CurKey(w)
              /\ ledger' = ledger \ Matching(ledger, CurKey(w))]_vars

\* two records have been created and both have been deleted
C25_Witness == nextId = 3 /\ ledger = {}

\* C26: in every reachable state a record has sentAt set exactly when its
\* status is sent; a record that a stale reclaim put back to pending, or
\* that is in sending, has no sentAt.
C26_SentAtIffSent ==
  \A r \in ledger : (r.sentAt # NULL) <=> (r.status = "sent")

\* after a server process died, a push record whose createdAt was refreshed
\* is sent, while the other pass is still between its claim and its markSent
C26_Witness ==
  /\ crashes = 1
  /\ \E r \in Matching(ledger, PushKey) :
       r.status = "sent" /\ r.sentAt # NULL /\ r.createdAt > StartNow
  /\ \E w \in Workers : pc[w] \in {"claimUpdate", "send", "markSent"}

\* the game of a work-list entry
GameOf(t) == CHOOSE g \in { Games[i] : i \in 1..Len(Games) } : g.id = t.gameId

\* the game of entry t is inside the window of t's kind at time at
InKindWindow(t, at) ==
  IF t.notificationType \in {"24hour", "24hour-push"}
    THEN /\ gameDateTime(GameOf(t)) - at > WindowLowHours * MinutesPerHour
         /\ gameDateTime(GameOf(t)) - at <= WindowHighHours * MinutesPerHour
    ELSE /\ gameDateTime(GameOf(t)) \div MinutesPerDay = at \div MinutesPerDay
         /\ at % MinutesPerDay > MorningStartHour * MinutesPerHour
         /\ at % MinutesPerDay < MorningEndHour * MinutesPerHour

\* the subscriber or push target of entry t is interested in the sport of t's game
IsInterested(t) ==
  IF t.channel = "email"
    THEN \E i \in 1..Len(subscriptions) :
           /\ subscriptions[i].id = t.subscriptionId
           /\ GameOf(t).sport \in subscriptions[i].sports
    ELSE \E p \in pushSubscriptions :
           /\ p.id = t.subscriptionId
           /\ p.fcmToken = t.fcmToken
           /\ GameOf(t).sport \in p.sports

\* every (game, subscriber) pair of work list ts is due at time at
AllDue(ts, at) ==
  \A i \in 1..Len(ts) : ts[i].op = "notify" => (IsInterested(ts[i]) /\ InKindWindow(ts[i], at))

\* C27: tryRecordNotificationAtomically and the delivery are called only for
\* pairs of the work list of the pass, and a pair is put on the work list
\* only if the subscriber's sports contain the game's sport and the game is
\* inside the window of the pair's kind at the pass's `now`.
C27_OnlyInterestedInWindow ==
  [][\A w \in Workers :
       /\ pc[w] = "idle" => AllDue(tasks'[w], now)
       /\ (pc[w] = "loadPush" /\ pc'[w] # "idle") => AllDue(tasks'[w], passNow[w])
       /\ (pc[w] \in PairPcs /\ pc'[w] # "idle") =>
            \/ tasks'[w] = tasks[w]
            \/ RemainingPairs(tasks'[w]) = RemainingPairs(Tail(tasks[w]))
       /\ pc'[w] \in PairPcs => (tasks'[w] # <<>> /\ Head(tasks'[w]).op = "notify")]_vars

\* the push target interested in Soccer only gets the game-day push for g2
\* and nothing for g1 (Hockey), which is inside the 24-hour window
C27_Witness ==
  \E w \in Workers :
    /\ pc[w] = "send"
    /\ CurKey(w) = GameDayPushKey
    /\ Len(tasks[w]) = 1

\* C28: a game whose time string does not match H:MM AM/PM is evaluated as
\* starting at 00:00 of its date, whatever time of day its stored date carries.
C28_UnmatchedTimeMeansMidnight ==
  [][\A g \in WindowGames :
       (EvalGame("w1", g) /\ ~timeMatch(g.time).matched) =>
         (HasTask(tasks'["w1"], g, "24hour") <=>
            /\ StartOfDay(g.date) - now > WindowLowHours * MinutesPerHour
            /\ StartOfDay(g.date) - now <= WindowHighHours * MinutesPerHour)]_vars

\* this step is the INSERT of pass w's tryRecordNotificationAtomically
\* throwing an error other than 23505: the call returns no boolean and the
\* pass leaves the pair
InsertThrew(w) ==
  /\ pc[w] = "claim"
  /\ tasks'[w] # tasks[w]
  /\ pc'[w] # "idle"

\* C29: when tryRecordNotificationAtomically throws, the pass adds one entry
\* to its errors list, makes no delivery for the key, writes nothing to the
\* ledger and goes on with the next pair.
C29_ClaimErrorRecorded ==
  [][\A w \in Workers :
       InsertThrew(w) =>
         /\ Len(result'[w].errors) = Len(result[w].errors) + 1
         /\ delivered' = delivered
         /\ ledger' = ledger
         /\ RemainingPairs(tasks'[w]) = RemainingPairs(Tail(tasks[w]))]_vars

\* C30: when an email was delivered and markNotificationSent failed, the
\* record stays in sending, and the stale recovery of a later tryClaim marks
\* it as sent and returns false, so that the email is not sent again.
C30_StaleRecoveryMarksSent ==
  [][\A w \in Workers :
       /\ MarkSentFailed(w) =>
            \A r \in Matching(ledger', CurKey(w)) : r.status = "sending"
       /\ (/\ ClaimStepOf(w)
           /\ pc[w] = "claimUpdate"
           /\ record[w].status = "sending"
           /\ Unchanged(ledger, record[w])
           /\ delivered[CurKey(w)] > 0
           /\ crashes = 0
           /\ \A v \in Workers \ {w} : pc[v] \notin PairPcs) =>
            /\ ~ReturnsTrue(w)
            /\ \A r \in Matching(ledger', CurKey(w)) : r.status = "sent"]_vars

\* the passes that hold a claim on key k: tryRecordNotificationAtomically
\* returned true and the pass has not yet marked the record sent, deleted
\* it or given the pair up
Holders(k) ==
  { w \in Workers :
      /\ pc[w] \in {"markSending", "send", "markSent"} \cup DeletePcs
      /\ CurKey(w) = k }

\* C31: tryRecordNotificationAtomically returns true only when the key has
\* no record (none was inserted yet or it was deleted) or when its record's
\* createdAt is more than 5 minutes old; and as long as no more than 5
\* minutes have passed since the first claim, at most one pass holds a claim
\* on a key.
C31_OneHolderWithinFiveMinutes ==
  [][/\ \A w \in Workers :
          ReturnsTrue(w) =>
            \/ /\ pc[w] = "claim"
               /\ Matching(ledger, CurKey(w)) = {}
            \/ /\ pc[w] = "claimUpdate"
               /\ \E r \in Matching(ledger, CurKey(w)) :
                    r.id = record[w].id /\ now - r.createdAt > StaleMinutes
     /\ now' <= StartNow + StaleMinutes =>
          \A k \in Keys : Cardinality(Holders(k)') <= 1]_vars

\* no process has died; a pass took more than 5 minutes over its push and a
\* second pass has reclaimed the record: both are about to deliver
C31_Witness ==
  /\ crashes = 0
  /\ Holders(PushKey) = Workers
  /\ \A w \in Workers : pc[w] = "send"

\* C32: a pass goes on from markNotificationSending to the email delivery
\* only if the UPDATE hit a row (the record of the key was pending and
\* became sending).
C32_SendOnlyAfterMarkSending ==
  [][\A w \in Workers :
       (pc[w] = "markSending" /\ pc'[w] = "send") =>
         /\ SendingMatches(ledger, CurKey(w)) # {}
         /\ \A r \in Matching(ledger', CurKey(w)) : r.status = "sending"]_vars

\* C33: the deleteNotificationRecord of a pass whose delivery failed removes
\* a record only while no other pass holds a claim on the key.
C33_DeleteOnlyOwnClaim ==
  [][\A w \in Workers :
       (pc[w] \in DeletePcs /\ ledger' # ledger) =>
         Holders(CurKey(w)) = {w}]_vars

\* C34: a tryRecordNotificationAtomically that returns false has written
\* nothing: its failed INSERT, its SELECT and its UPDATE that hit no row
\* leave every record of the ledger as it was.
C34_FalseClaimWritesNothing ==
  [][\A w \in Workers :
       /\ (pc[w] \in ClaimPcs /\ pc'[w] \in ClaimPcs /\ pc'[w] # pc[w]) =>
            ledger' = ledger
       /\ ReturnsFalse(w) => ledger' = ledger]_vars

\* the tryClaim of a pass returned false on the key that the other pass
\* claimed at 09:00, and the record is as the other pass left it
C34_Witness ==
  \E w \in Workers : \E v \in Workers \ {w} :
    /\ result[w].skippedDuplicates = 1
    /\ pc[v] = "markSending"
    /\ \E r \in Matching(ledger, EmailKey) :
         r.status = "pending" /\ r.createdAt = MaxNow
    /\ nextId = 2

\* C35: when the INSERT of tryRecordNotificationAtomically got error 23505
\* and the SELECT finds no row (the record was deleted in between), the
\* call returns false: no record is created, nothing is delivered, the pass
\* goes on to its next pair and the key stays without a record.
C35_DeletedBeforeReadIsSkipped ==
  [][\A w \in Workers :
       (/\ pc[w] = "claimSelect"
        /\ Matching(ledger, CurKey(w)) = {}
        /\ pc'[w] \notin {pc[w], "idle"}
        /\ result'[w].errors = result[w].errors) =>
         /\ ~ReturnsTrue(w)
         /\ tasks'[w] # tasks[w]
         /\ RemainingPairs(tasks'[w]) = RemainingPairs(Tail(tasks[w]))
         /\ ledger' = ledger
         /\ Matching(ledger', CurKey(w)) = {}
         /\ delivered' = delivered
         /\ CurTask(w).channel = "email" =>
              result'[w].skippedDuplicates = result[w].skippedDuplicates + 1]_vars

\* the INSERT of a pass hit the record of the other pass, whose delivery
\* then failed and whose deleteNotificationRecord removed the record before
\* the SELECT
C35_Witness ==
  \E w \in Workers :
    /\ pc[w] = "claimSelect"
    /\ Matching(ledger, CurKey(w)) = {}
    /\ nextId = 2
    /\ crashes = 0

\* the errors a pass reports for a delivery that failed
DeliveryErrors == {"Email delivery failed", "Email send threw error"}

\* this step is pass w leaving a pair that its tryClaim had claimed, no
\* ledger operation of the pair having thrown
ClaimedPairDone(w) ==
  /\ pc[w] \in {"markSending", "send", "markSent", "deletePushSub", "deletePushSubOther"}
                 \cup DeletePcs
  /\ tasks'[w] # tasks[w]
  /\ pc'[w] # "idle"
  /\ \/ result'[w].errors = result[w].errors
     \/ LastError(result'[w]) \in DeliveryErrors

\* C36: a pass that runs alone, without a death of the process and without
\* a throw of a ledger operation, leaves every pair that it claimed with its
\* record sent or deleted, for email and push, and does not touch the
\* records of the other keys while it works on a pair; so no key it claimed
\* is pending or sending when it returns.
C36_ClaimedKeysSettled ==
  [][\A w \in BatchWorkers :
       /\ ClaimedPairDone(w) =>
            \A r \in Matching(ledger', CurKey(w)) : r.status = "sent"
       /\ pc[w] \in PairPcs =>
            \A r \in ledger : KeyOf(r) # CurKey(w) => r \in ledger']_vars

\* a pass over two subscribers has returned: one email was delivered and
\* its record is sent, the other delivery failed and its record is deleted
C36_Witness ==
  /\ pc["w1"] = "done"
  /\ result["w1"].emailsSent = 1
  /\ result["w1"].errors = << "Email delivery failed" >>
  /\ Cardinality(ledger) = 1
  /\ \A r \in ledger : r.status = "sent"
  /\ nextId = 3

(***************************************************************************)
(* The hourly job against the 24-hour window.  The games table holds one   *)
(* game, on the day after tomorrow, at any minute of the day; a subscriber *)
(* is interested in it.  The clock starts at the first firing of the job   *)
(* at or after the minute the game's window opens (27 hours before the     *)
(* start) and runs, on days of 24 hours, from firing to firing until the   *)
(* job starts a pass.                                                      *)
(***************************************************************************)
\* a number below 100 in decimal digits, as game.time spells hours
NumString(n) ==
  IF n < 10 THEN << Digits[n + 1] >> ELSE << Digits[(n \div 10) + 1], Digits[(n % 10) + 1] >>

\* the spellings of the meridiem of hour h of the 24-hour clock
Meridiems(h) ==
  IF h < 12 THEN { << "A", "M" >>, << "a", "m" >>, << "A", "m" >> }
            ELSE { << "P", "M" >>, << "p", "m" >>, << "p", "M" >> }

\* game.time of a game at h:m on the 24-hour clock, e.g. "7:05 PM"
TimeString(h, m, meridiem) ==
  NumString(IF h % 12 = 0 THEN 12 ELSE h % 12)
    \o << ":" >> \o << Digits[(m \div 10) + 1], Digits[(m % 10) + 1] >>
    \o << " " >> \o meridiem

ScheduleDay == 2 * MinutesPerDay

ScheduleGames ==
  UNION { { [id |-> "g1", sport |-> "Hockey", date |-> ScheduleDay,
             time |-> TimeString(h, m, meridiem)] : meridiem \in Meridiems(h) } :
          h \in 0..23, m \in 0..59 }

\* the firings of the job from 21:15 today to 21:15 tomorrow
ScheduleInstants == { h * MinutesPerHour + CronMinute : h \in 21..45 }

ScheduleEnd == 51 * MinutesPerHour + CronMinute

ScheduleInit ==
  /\ ledger = {}
  /\ nextId = 1
  /\ now \in ScheduleInstants
  /\ \E g \in ScheduleGames :
       /\ games = << g >>
       /\ gameDateTime(g) - WindowHighHours * MinutesPerHour <= now
       /\ gameDateTime(g) - WindowHighHours * MinutesPerHour > now - MinutesPerHour
  /\ subscriptions = << [id |-> "s1", sports |-> {"Hockey"}] >>
  /\ pushSubscriptions = {}
  /\ pc = [w \in Workers |-> "idle"]
  /\ tasks = [w \in Workers |-> <<>>]
  /\ result = [w \in Workers |-> EmptyResult]
  /\ record = [w \in Workers |-> NoRecord]
  /\ fiveMinutesAgo = [w \in Workers |-> NULL]
  /\ passNow = [w \in Workers |-> NULL]
  /\ delivered = [k \in Keys |-> 0]
  /\ crashes = 0

\* performNotificationCheck has returned without a pass: the next firing
ScheduleTick ==
  /\ isQuietHours(now)
  /\ pc[CronWorker] = "idle"
  /\ now + MinutesPerHour <= ScheduleEnd
  /\ now' = now + MinutesPerHour
  /\ UNCHANGED <<ledger, nextId, games, subscriptions, pushSubscriptions, pc, tasks, result,
                 record, fiveMinutesAgo, passNow, delivered, crashes>>

ScheduleNext ==
  \/ \E w \in Workers : w = CronWorker /\ performNotificationCheck(w)
  \/ ScheduleTick

ScheduleSpec == ScheduleInit /\ [][ScheduleNext]_vars

\* C37: on days of 24 hours, with the job firing at minute 15 of every hour
\* and returning early in the hours 0 to 4, the first pass that the job
\* starts at or after the opening of a game's 24-hour window is inside the
\* window (more than 21 and at most 27 hours before the start) and counts
\* the game, whatever the minute of the day the game starts at.
C37_ScheduleMeetsWindow ==
  (pc[CronWorker] # "idle" /\ result[CronWorker].errors = <<>>) =>
    /\ gameDateTime(games[1]) - now > WindowLowHours * MinutesPerHour
    /\ gameDateTime(games[1]) - now <= WindowHighHours * MinutesPerHour
    /\ result[CronWorker].gamesIn24Hours = 1
    /\ HasTask(tasks[CronWorker], games[1], "24hour")

\* the window of a game at 02:16 opened at 23:16, one minute after the last
\* firing before the quiet hours; the pass of 05:15 is 21 hours and one
\* minute before the start and counts the game
C37_Witness ==
  /\ now = 29 * MinutesPerHour + CronMinute
  /\ gameDateTime(games[1]) - now = WindowLowHours * MinutesPerHour + 1
  /\ pc[CronWorker] = "claim"
  /\ result[CronWorker].gamesIn24Hours = 1

\* this step is taken by pass w
StepOf(w) == pc'[w] # pc[w] \/ tasks'[w] # tasks[w]

\* C38: markNotificationSending, markNotificationSent and
\* deleteNotificationRecord called for a key without a record return false
\* and leave the ledger as it is; markNotificationSending called on a
\* record in sending or sent returns false and changes no record, its
\* createdAt included.
C38_NoRowNoEffect ==
  [][\A w \in Workers :
       /\ (pc[w] = "markSending" /\ StepOf(w) /\
           \A r \in Matching(ledger, CurKey(w)) : r.status \in {"sending", "sent"}) =>
            /\ ~markSendingReturns(ledger, CurKey(w))
            /\ ledger' = ledger
       /\ (pc[w] = "markSent" /\ StepOf(w) /\ Matching(ledger, CurKey(w)) = {}) =>
            /\ ~markSentReturns(ledger, CurKey(w))
            /\ ledger' = ledger
       /\ (pc[w] \in DeletePcs /\ StepOf(w) /\ Matching(ledger, CurKey(w)) = {}) =>
            /\ ~deleteRecordReturns(ledger, CurKey(w))
            /\ ledger' = ledger]_vars

\* a pass is about to call markNotificationSending for a key whose record
\* the other pass has reclaimed and, its delivery failing, deleted
C38_Witness ==
  \E w \in Workers :
    /\ pc[w] = "markSending"
    /\ Matching(ledger, CurKey(w)) = {}
    /\ nextId = 2
    /\ crashes = 0

\* the hour of the 12-hour clock reading `hours` AM or PM, as the 24-hour
\* clock counts it
ClockHour(hours, isPM) ==
  CASE hours = 12 /\ ~isPM -> 0
    [] hours = 12 /\ isPM  -> 12
    [] hours # 12 /\ isPM  -> hours + 12
    [] OTHER               -> hours

\* C39: for a time string that matches H:MM AM/PM, the meridiem in any
\* letter case, the start computed for the game is on the day of the game's
\* date at the hour of the 12-hour clock (12 AM is hour 0, 12 PM is hour
\* 12, any other H PM is H+12, any other H AM is H) and at minute MM, with
\* nothing below the minute (instants are whole minutes of local time).
C39_TwelveHourClock ==
  \A i \in 1..Len(games) :
    LET tm    == timeMatch(games[i].time)
        start == gameDateTime(games[i])
    IN  tm.matched =>
          /\ start - StartOfDay(games[i].date) =
               ClockHour(tm.hours, tm.isPM) * MinutesPerHour + tm.minutes
          /\ tm.isPM = (games[i].time[Len(games[i].time) - 1] \in {"P", "p"})

\* a pass has been started for a game whose time reads "12:30 am": the
\* start is 00:30 of the game's day
C39_Witness ==
  /\ games[1].time = << "1", "2", ":", "3", "0", " ", "a", "m" >>
  /\ gameDateTime(games[1]) = ScheduleDay + 30
  /\ pc[CronWorker] = "claim"

====
